---- MODULE Spec2Model ----
(***************************************************************************)
(* Model of the songvisualizer Flask application (src/app.py).             *)
(*                                                                         *)
(* Numeric audio features in [0.0, 1.0] (danceability, energy, valence,    *)
(* acousticness, liveness) are represented in hundredths: 0.4 is 40, 0.7   *)
(* is 70.  tempo is in beats per minute and popularity is a plain number.  *)
(* A mean popularity is kept as the exact fraction <<sum, count>>.         *)
(***************************************************************************)
EXTENDS Integers, Sequences, FiniteSets

VARIABLES
    storage,    \* rows of table "songs" of spotifyMusic.db, in table order
    session,    \* the Flask session: a function from the keys set so far
    request,    \* the request (or function call) handled last
    loaded,     \* the last db_create_dataframe call of that request
    response    \* what the handler (or function) returned

vars == <<storage, session, request, loaded, response>>

----------------------------------------------------------------------------
(* Bounds of the model *)

\* values handed to dance_energy_category range over -0.30 .. 1.30
ValueMargin == 30

\* at most this many rows in the songs table of the application model
MaxSongs == 2

\* at most this many genres in the songs table of the chart model
MaxGenres == 11

----------------------------------------------------------------------------
(* Program constants, in hundredths where the source has a fraction *)

LowBelow == 40          \* value < 0.4
MediumBelow == 70       \* value < 0.7
HappyValence == 70      \* row["valence"] > 0.7
HappyEnergy == 70       \* row["energy"] > 0.7
RelaxingTempo == 90     \* row["tempo"] < 90
RelaxingEnergy == 50    \* row["energy"] < 0.5
WorkoutTempo == 120     \* row["tempo"] > 120
WorkoutEnergy == 70     \* row["energy"] > 0.7
PartyDanceability == 70 \* row["danceability"] > 0.7
PartyEnergy == 70       \* row["energy"] > 0.7
TopGenres == 10         \* genre_popularity.head(10)

\* Python's None, for db_create_dataframe(genre=None)
None == "<None>"

Categories == {"Low", "Medium", "High"}
Moods == {"Happy", "Relaxing", "Workout", "Party", "Other"}

----------------------------------------------------------------------------
(* The two pure classifiers *)

\* a plausible slip: the 0.4 boundary taken as Low (<= instead of <)
dance_energy_category_le(value) ==
    IF value <= LowBelow THEN "Low"
    ELSE IF value < MediumBelow THEN "Medium"
    ELSE "High"

dance_energy_category(value) ==
    IF value < LowBelow THEN "Low"
    ELSE IF value < MediumBelow THEN "Medium"
    ELSE "High"

\* a plausible slip: the Workout rule tried before the Happy rule
map_mood_workout_first(row) ==
    IF row.tempo > WorkoutTempo /\ row.energy > WorkoutEnergy THEN "Workout"
    ELSE IF row.valence > HappyValence /\ row.energy > HappyEnergy THEN "Happy"
    ELSE IF row.tempo < RelaxingTempo /\ row.energy < RelaxingEnergy THEN "Relaxing"
    ELSE IF row.danceability > PartyDanceability /\ row.energy > PartyEnergy THEN "Party"
    ELSE "Other"

map_mood(row) ==
    IF row.valence > HappyValence /\ row.energy > HappyEnergy THEN "Happy"
    ELSE IF row.tempo < RelaxingTempo /\ row.energy < RelaxingEnergy THEN "Relaxing"
    ELSE IF row.tempo > WorkoutTempo /\ row.energy > WorkoutEnergy THEN "Workout"
    ELSE IF row.danceability > PartyDanceability /\ row.energy > PartyEnergy THEN "Party"
    ELSE "Other"

----------------------------------------------------------------------------
(* Values shared by every specification *)

EmptySession == [k \in {} |-> ""]
NotLoaded == [called |-> FALSE]
Pending == [kind |-> "pending"]
Returned(v) == [kind |-> "return", value |-> v]

----------------------------------------------------------------------------
(* Specification of dance_energy_category alone: the argument is drawn     *)
(* from -0.30 .. 1.30 and the function is applied to it.                   *)

CategoryValues == (0 - ValueMargin) .. (100 + ValueMargin)

InitCategory ==
    /\ storage = <<>>
    /\ session = EmptySession
    /\ loaded = NotLoaded
    /\ \E v \in CategoryValues :
          request = [fn |-> "dance_energy_category", value |-> v]
    /\ response = Pending

CallCategory ==
    /\ response.kind = "pending"
    /\ response' = Returned(dance_energy_category(request.value))
    /\ UNCHANGED <<storage, session, request, loaded>>

SpecCategory == InitCategory /\ [][CallCategory]_vars

----------------------------------------------------------------------------
(* Specification of map_mood alone: the four features are drawn from       *)
(* values on and around every threshold.                                   *)

MoodValences == {60, 70, 71, 80}
MoodEnergies == {30, 49, 50, 60, 70, 71, 80}
MoodTempos == {80, 89, 90, 100, 120, 121, 130}
MoodDanceabilities == {60, 70, 71, 80}

MoodRows ==
    [valence : MoodValences, energy : MoodEnergies,
     tempo : MoodTempos, danceability : MoodDanceabilities]

InitMood ==
    /\ storage = <<>>
    /\ session = EmptySession
    /\ loaded = NotLoaded
    /\ \E row \in MoodRows : request = [fn |-> "map_mood", row |-> row]
    /\ response = Pending

CallMood ==
    /\ response.kind = "pending"
    /\ response' = Returned(map_mood(request.row))
    /\ UNCHANGED <<storage, session, request, loaded>>

SpecMood == InitMood /\ [][CallMood]_vars

----------------------------------------------------------------------------
(* The songs table.  db_convert.py drops rows with missing values and      *)
(* duplicate (track_name, artists) pairs, so every row is complete and its *)
(* track_name identifies it: row i of the table is named i.                *)

\* genre names in Python's string order, the order groupby sorts its keys in
GenreNames ==
    << "acoustic", "blues", "classical", "country", "disco", "edm", "folk",
       "funk", "hiphop", "jazz", "latin", "pop", "rock", "techno" >>

KeyRank(genre) == CHOOSE i \in 1..Len(GenreNames) : GenreNames[i] = genre

\* feature vectors of the application model: one per mood, one on the
\* energy boundary 0.7 and one with every category different
Profiles ==
    << [valence |-> 80, energy |-> 80, tempo |-> 130, danceability |-> 80,
        acousticness |-> 10, liveness |-> 20, popularity |-> 90],
       [valence |-> 20, energy |-> 30, tempo |-> 80, danceability |-> 90,
        acousticness |-> 80, liveness |-> 10, popularity |-> 50],
       [valence |-> 50, energy |-> 80, tempo |-> 130, danceability |-> 50,
        acousticness |-> 5, liveness |-> 30, popularity |-> 50],
       [valence |-> 50, energy |-> 80, tempo |-> 100, danceability |-> 80,
        acousticness |-> 20, liveness |-> 60, popularity |-> 10],
       [valence |-> 80, energy |-> 70, tempo |-> 130, danceability |-> 40,
        acousticness |-> 30, liveness |-> 40, popularity |-> 20],
       [valence |-> 10, energy |-> 50, tempo |-> 60, danceability |-> 39,
        acousticness |-> 90, liveness |-> 15, popularity |-> 15] >>

Song(name, genre, f) ==
    [track_name |-> name, artists |-> "artist", track_genre |-> genre,
     popularity |-> f.popularity, danceability |-> f.danceability,
     energy |-> f.energy, valence |-> f.valence, tempo |-> f.tempo,
     acousticness |-> f.acousticness, liveness |-> f.liveness]

\* genres of the rows of the application model
TableGenres == {"pop", "rock"}

\* every table of at most MaxSongs rows
Tables ==
    UNION { { [i \in 1..n |-> Song(i, c[i][1], Profiles[c[i][2]])] :
                c \in [1..n -> TableGenres \X (1..Len(Profiles))] } :
            n \in 0..MaxSongs }

----------------------------------------------------------------------------
(* Song repository *)

\* Python truthiness of the genre argument: None and "" are both falsy
Truthy(genre) == genre /= None /\ genre /= ""

\* SELECT * FROM songs [WHERE track_genre = ?]: the rows, in table order
db_create_dataframe(table, genre) ==
    LET Match(row) == row.track_genre = genre
    IN  IF Truthy(genre) THEN SelectSeq(table, Match) ELSE table

\* SELECT DISTINCT track_genre FROM songs (the order of the list is SQLite's)
db_get_genres(table) == { table[i].track_genre : i \in DOMAIN table }

Loaded(genre, df) == [called |-> TRUE, genre |-> genre, rows |-> df]

----------------------------------------------------------------------------
(* Session and responses *)

SetKey(sess, key, value) ==
    [k \in DOMAIN sess \cup {key} |-> IF k = key THEN value ELSE sess[k]]

RedirectHome == [kind |-> "redirect", to |-> "home"]
RedirectGenre(genre) == [kind |-> "redirect", to |-> "genre_data", genre |-> genre]
ServerError(exception) == [kind |-> "error", exception |-> exception]
Image(fig) == [kind |-> "image", fig |-> fig]

\* values the genre and mood form fields take, and genres in a URL path
\* (a path segment is never empty)
FormGenres == {""} \cup TableGenres
FormMoods == Moods
PathGenres == TableGenres

----------------------------------------------------------------------------
(* Chart builder (a): top genres by mean popularity *)

RECURSIVE SumPopularity(_)
SumPopularity(rows) ==
    IF rows = <<>> THEN 0
    ELSE Head(rows).popularity + SumPopularity(Tail(rows))

\* df.groupby("track_genre")["popularity"].mean(): one entry per genre, in
\* the order of the sorted keys; the mean is the fraction <<sum, count>>
groupby_mean(df) ==
    LET keys == { df[i].track_genre : i \in DOMAIN df }
        Key(n) == CHOOSE g \in keys :
                     Cardinality({h \in keys : KeyRank(h) < KeyRank(g)}) = n - 1
        Group(g) == LET Match(row) == row.track_genre = g
                    IN  SelectSeq(df, Match)
    IN  [n \in 1..Cardinality(keys) |->
            [track_genre |-> Key(n),
             mean |-> <<SumPopularity(Group(Key(n))), Len(Group(Key(n)))>>]]

\* a/b < c/d for fractions with positive denominators
MeanLess(m1, m2) == m1[1] * m2[2] < m2[1] * m1[2]

\* the entries of `series` at the positions `left`, in every order in which
\* each entry may precede all the entries after it (mayPrecede[j][k])
RECURSIVE Sorted(_, _, _)
Sorted(series, left, mayPrecede) ==
    IF left = {} THEN { <<>> }
    ELSE UNION { { <<series[i]>> \o rest :
                      rest \in Sorted(series, left \ {i}, mayPrecede) } :
                 i \in { j \in left : \A k \in left : mayPrecede[j][k] } }

\* a plausible slip: ascending=False left out
sort_values_ascending(series) ==
    Sorted(series, DOMAIN series,
           [j \in DOMAIN series |-> [k \in DOMAIN series |->
               ~MeanLess(series[k].mean, series[j].mean)]])

\* Series.sort_values(ascending=False) with the default kind="quicksort",
\* which is not stable: every order with non-increasing means is an outcome
sort_values(series) ==
    Sorted(series, DOMAIN series,
           [j \in DOMAIN series |-> [k \in DOMAIN series |->
               ~MeanLess(series[j].mean, series[k].mean)]])

\* a plausible slip: an off-by-one in the cut
head_one_more(series, n) ==
    SubSeq(series, 1, IF Len(series) < n + 1 THEN Len(series) ELSE n + 1)

\* Series.head(n)
head(series, n) ==
    SubSeq(series, 1, IF Len(series) < n THEN Len(series) ELSE n)

\* the figures create_figure_genre_popularity can return for the table
create_figure_genre_popularity(table) ==
    LET df == db_create_dataframe(table, None)
    IN  { [title |-> "Average Popularity vs Top 10 Genres",
           bars |-> [n \in DOMAIN head(genre_popularity, TopGenres) |->
                       [x |-> genre_popularity[n].track_genre,
                        height |-> genre_popularity[n].mean]]] :
          genre_popularity \in sort_values(groupby_mean(df)) }

----------------------------------------------------------------------------
(* Chart builder (b): actual and predicted danceability against energy *)

\* colors = {"Low": "red", "Medium": "orange", "High": "green"}, in dict order
colors ==
    << [category |-> "Low", color |-> "red"],
       [category |-> "Medium", color |-> "orange"],
       [category |-> "High", color |-> "green"] >>

\* model.predict(X): one fitted value per row, in row order.  The number
\* itself (an ordinary-least-squares fit over the reals) is not computed:
\* the fitted value of a row is named by the row it was computed for.
predict(df) == [i \in DOMAIN df |-> [fitted_for |-> df[i].track_name]]

\* a plausible slip: the category taken from the wrong column
energy_category_of_danceability(df) ==
    [i \in DOMAIN df |-> dance_energy_category(df[i].danceability)]

\* df["energy"].apply(dance_energy_category)
energy_category(df) ==
    [i \in DOMAIN df |-> dance_energy_category(df[i].energy)]

\* the three ax.scatter calls of one sub-chart; y[i] is row i's y value.
\* A point keeps the track_name of its row, to tell whose point it is.
scatter(df, category, y) ==
    [c \in DOMAIN colors |->
        LET subset == { i \in DOMAIN df : category[i] = colors[c].category }
            Nth(n) == CHOOSE i \in subset :
                         Cardinality({j \in subset : j < i}) = n - 1
        IN  [label |-> colors[c].category, color |-> colors[c].color,
             points |-> [n \in 1..Cardinality(subset) |->
                           [track_name |-> df[Nth(n)].track_name,
                            x |-> df[Nth(n)].energy, y |-> y[Nth(n)]]]]]

\* create_figure_danceability_energy: LinearRegression.fit raises
\* ValueError for a frame without rows (scikit-learn requires one sample)
create_figure_danceability_energy(table, genre) ==
    LET df == db_create_dataframe(table, genre)
    IN  IF Len(df) = 0 THEN ServerError("ValueError")
        ELSE Image([genre |-> genre,
                    actual |-> scatter(df, energy_category(df),
                                       [i \in DOMAIN df |-> df[i].danceability]),
                    predicted |-> scatter(df, energy_category(df), predict(df))])

----------------------------------------------------------------------------
(* submit_mood's table of songs *)

\* df["mood"] = df.apply(map_mood, axis=1), computed from the numeric columns
mood_column(df) == [i \in DOMAIN df |-> map_mood(df[i])]

\* lines 106-112: the mood column, then danceability and energy replaced by
\* their categories, then the rows of the selected mood and four columns
filtered_songs(df, mood) ==
    LET moods == mood_column(df)
        labelled == [i \in DOMAIN df |->
                        [df[i] EXCEPT
                            !.danceability = dance_energy_category(@),
                            !.energy = dance_energy_category(@)]]
        keep == { i \in DOMAIN df : moods[i] = mood }
        Nth(n) == CHOOSE i \in keep : Cardinality({j \in keep : j < i}) = n - 1
    IN  [n \in 1..Cardinality(keep) |->
            [track_name |-> labelled[Nth(n)].track_name,
             artists |-> labelled[Nth(n)].artists,
             danceability |-> labelled[Nth(n)].danceability,
             energy |-> labelled[Nth(n)].energy]]

MoodPage(genre, mood, songs) ==
    [kind |-> "render", template |-> "mood.html",
     genre |-> genre, mood |-> mood, songs |-> songs]

\* what submit_mood can answer once the mood is stored.  On a frame without
\* rows df.apply(map_mood, axis=1) depends on the pandas release: it returns
\* an empty Series (the page shows no song) or a copy of the frame, which
\* the assignment to df["mood"] rejects with ValueError.
submit_mood_responses(table, sess) ==
    IF "genre" \notin DOMAIN sess THEN { RedirectHome }
    ELSE LET df == db_create_dataframe(table, sess.genre)
         IN  IF Len(df) = 0
             THEN { MoodPage(sess.genre, sess.mood, <<>>), ServerError("ValueError") }
             ELSE { MoodPage(sess.genre, sess.mood, filtered_songs(df, sess.mood)) }

----------------------------------------------------------------------------
(* The routes of the application.  A form always carries its field.        *)

home ==
    /\ request' = [fn |-> "home"]
    /\ loaded' = NotLoaded
    /\ response' = [kind |-> "render", template |-> "home.html",
                    genres |-> db_get_genres(storage),
                    message |-> "Please select a genre."]
    /\ UNCHANGED <<storage, session>>

submit_genre(genre) ==
    /\ request' = [fn |-> "submit_genre", genre |-> genre]
    /\ session' = SetKey(session, "genre", genre)
    /\ loaded' = NotLoaded
    /\ response' = IF session'.genre = "" THEN RedirectHome
                   ELSE RedirectGenre(session'.genre)
    /\ UNCHANGED storage

genre_data(genre) ==
    /\ request' = [fn |-> "genre_data", genre |-> genre]
    /\ loaded' = NotLoaded
    /\ response' = [kind |-> "render", template |-> "genre.html", genre |-> genre]
    /\ UNCHANGED <<storage, session>>

\* everything submit_mood does to the session and the response
submit_mood_request(mood) ==
    /\ request' = [fn |-> "submit_mood", mood |-> mood]
    /\ session' = SetKey(session, "mood", mood)
    /\ loaded' = IF "genre" \in DOMAIN session
                 THEN Loaded(session.genre,
                             db_create_dataframe(storage, session.genre))
                 ELSE NotLoaded
    /\ response' \in submit_mood_responses(storage, session')

\* a plausible slip: the loaded frame saved over the table (df.to_sql)
submit_mood_to_sql(mood) ==
    /\ submit_mood_request(mood)
    /\ storage' = IF "genre" \in DOMAIN session
                  THEN db_create_dataframe(storage, session.genre)
                  ELSE storage

submit_mood(mood) ==
    /\ submit_mood_request(mood)
    /\ UNCHANGED storage

fig_genre_popularity ==
    /\ request' = [fn |-> "fig_genre_popularity"]
    /\ loaded' = Loaded(None, db_create_dataframe(storage, None))
    /\ \E fig \in create_figure_genre_popularity(storage) :
          response' = Image(fig)
    /\ UNCHANGED <<storage, session>>

fig_danceability_prediction(genre) ==
    /\ request' = [fn |-> "fig_danceability_prediction", genre |-> genre]
    /\ loaded' = Loaded(genre, db_create_dataframe(storage, genre))
    /\ response' = create_figure_danceability_energy(storage, genre)
    /\ UNCHANGED <<storage, session>>

catch_all ==
    /\ request' = [fn |-> "catch_all"]
    /\ loaded' = NotLoaded
    /\ response' = RedirectHome
    /\ UNCHANGED <<storage, session>>

Init ==
    /\ storage \in Tables
    /\ session = EmptySession
    /\ request = [fn |-> "none"]
    /\ loaded = NotLoaded
    /\ response = Pending

Next ==
    \/ home
    \/ \E genre \in FormGenres : submit_genre(genre)
    \/ \E genre \in PathGenres : genre_data(genre)
    \/ \E mood \in FormMoods : submit_mood(mood)
    \/ fig_genre_popularity
    \/ \E genre \in PathGenres : fig_danceability_prediction(genre)
    \/ catch_all

Spec == Init /\ [][Next]_vars

----------------------------------------------------------------------------
(* Specification of the genre popularity chart alone, over tables with up  *)
(* to MaxGenres genres: more than the ten the chart keeps.  Genre i has a  *)
(* row of popularity 10 * ((i * step) mod 5); with second = 1 every genre, *)
(* with second = 2 every even genre, has another row of popularity         *)
(* 10 * (i mod 3); the rows come in reverse key order or in key order.     *)

ChartRows(n, step, second) ==
    LET first == [i \in 1..n |-> [genre |-> i, popularity |-> 10 * ((i * step) % 5)]]
        IsSecond(row) == second = 1 \/ (second = 2 /\ row.genre % 2 = 0)
        more == SelectSeq([i \in 1..n |-> [genre |-> i, popularity |-> 10 * (i % 3)]],
                          IsSecond)
    IN  first \o more

ChartTable(n, step, second, keyOrder) ==
    LET rows == ChartRows(n, step, second)
        At(i) == IF keyOrder THEN rows[i] ELSE rows[Len(rows) + 1 - i]
    IN  [i \in 1..Len(rows) |->
            Song(i, GenreNames[At(i).genre],
                 [Profiles[1] EXCEPT !.popularity = At(i).popularity])]

InitChart ==
    /\ \E n \in 0..MaxGenres, step \in 1..3, second \in 0..2, keyOrder \in BOOLEAN :
          storage = ChartTable(n, step, second, keyOrder)
    /\ session = EmptySession
    /\ request = [fn |-> "none"]
    /\ loaded = NotLoaded
    /\ response = Pending

SpecChart == InitChart /\ [][fig_genre_popularity]_vars

----------------------------------------------------------------------------
(* C1: dance_energy_category(v) is Low when v < 0.4, Medium when           *)
(* 0.4 <= v < 0.7 and High when v >= 0.7, for every v, also outside [0,1]: *)
(* whenever the function has returned, its result is the one the three     *)
(* ranges give for its argument.                                           *)
C1_Thresholds ==
    (request.fn = "dance_energy_category" /\ response.kind = "return") =>
        LET v == request.value IN
        /\ (v < 40) => response.value = "Low"
        /\ (40 <= v /\ v < 70) => response.value = "Medium"
        /\ (v >= 70) => response.value = "High"

\* the function has returned Medium on the boundary 0.4
C1_Witness ==
    /\ request.fn = "dance_energy_category"
    /\ response.kind = "return"
    /\ request.value = 40
    /\ response.value = "Medium"

\* C2: map_mood returns the label of the first matching rule in the order
\* Happy, Relaxing, Workout, Party, else Other, every comparison strict.
C2_FirstMatch ==
    (request.fn = "map_mood" /\ response.kind = "return") =>
        LET r == request.row
            happy == r.valence > 70 /\ r.energy > 70
            relaxing == r.tempo < 90 /\ r.energy < 50
            workout == r.tempo > 120 /\ r.energy > 70
            party == r.danceability > 70 /\ r.energy > 70
        IN  /\ happy => response.value = "Happy"
            /\ (~happy /\ relaxing) => response.value = "Relaxing"
            /\ (~happy /\ ~relaxing /\ workout) => response.value = "Workout"
            /\ (~happy /\ ~relaxing /\ ~workout /\ party) => response.value = "Party"
            /\ (~happy /\ ~relaxing /\ ~workout /\ ~party) => response.value = "Other"
            /\ (r.energy = 70) => response.value = "Other"

\* a row meeting both the Happy and the Workout condition was classified Happy
C2_Witness ==
    /\ request.fn = "map_mood"
    /\ response.kind = "return"
    /\ request.row.valence > 70 /\ request.row.energy > 70
    /\ request.row.tempo > 120
    /\ response.value = "Happy"

----------------------------------------------------------------------------
(* What the claims about the popularity chart speak of, computed from the  *)
(* table itself.                                                           *)

StorageGenres == { storage[i].track_genre : i \in DOMAIN storage }
RowsOf(genre) == { i \in DOMAIN storage : storage[i].track_genre = genre }
FirstAppearance(genre) == CHOOSE i \in RowsOf(genre) : \A j \in RowsOf(genre) : i <= j

RECURSIVE PopularityOver(_)
PopularityOver(rows) ==
    IF rows = {} THEN 0
    ELSE LET i == CHOOSE j \in rows : TRUE
         IN  storage[i].popularity + PopularityOver(rows \ {i})

\* mean popularity of genre g <= mean popularity of genre h
MeanAtMost(g, h) ==
    PopularityOver(RowsOf(g)) * Cardinality(RowsOf(h))
        <= PopularityOver(RowsOf(h)) * Cardinality(RowsOf(g))

PopularityChart ==
    request.fn = "fig_genre_popularity" /\ response.kind = "image"

Bars == response.fig.bars

\* C4 as stated: the bars are in descending order of mean popularity and
\* genres of equal mean popularity are in the order of their first
\* appearance in the input.
C4_TiesByFirstAppearance ==
    PopularityChart =>
        \A a, b \in DOMAIN Bars :
            a < b =>
                /\ MeanAtMost(Bars[b].x, Bars[a].x)
                /\ (MeanAtMost(Bars[a].x, Bars[b].x)
                      => FirstAppearance(Bars[a].x) < FirstAppearance(Bars[b].x))

\* C4 as amended: the bars are distinct genres of the input, each as high as
\* the mean popularity of its genre, in descending order of mean popularity
\* (the order among genres of equal mean popularity is left open).
C4_DescendingMeans ==
    PopularityChart =>
        /\ \A a \in DOMAIN Bars :
              /\ Bars[a].x \in StorageGenres
              /\ Bars[a].height[1] * Cardinality(RowsOf(Bars[a].x))
                    = PopularityOver(RowsOf(Bars[a].x)) * Bars[a].height[2]
        /\ \A a, b \in DOMAIN Bars :
              a < b => /\ Bars[a].x /= Bars[b].x
                       /\ MeanAtMost(Bars[b].x, Bars[a].x)

\* a chart whose bars were reordered: a later genre of the table with a
\* higher mean comes first, and two genres have equal means
C4_Witness ==
    /\ PopularityChart
    /\ \E a, b \in DOMAIN Bars :
          /\ a < b
          /\ ~MeanAtMost(Bars[a].x, Bars[b].x)
          /\ FirstAppearance(Bars[a].x) > FirstAppearance(Bars[b].x)
    /\ \E a, b \in DOMAIN Bars :
          a /= b /\ MeanAtMost(Bars[a].x, Bars[b].x) /\ MeanAtMost(Bars[b].x, Bars[a].x)

\* C5: the chart has min(10, number of distinct genres) bars, no genre left
\* out has a higher mean popularity than a genre shown, and an empty table
\* gives a chart without bars, not an error.
C5_TopTen ==
    request.fn = "fig_genre_popularity" =>
        /\ response.kind = "image"
        /\ Len(Bars) = (IF Cardinality(StorageGenres) < 10
                        THEN Cardinality(StorageGenres) ELSE 10)
        /\ \A a \in DOMAIN Bars :
              \A g \in StorageGenres \ { Bars[b].x : b \in DOMAIN Bars } :
                  MeanAtMost(g, Bars[a].x)
        /\ (storage = <<>> => Bars = <<>>)

\* a table of more than ten genres was charted: ten bars, a genre left out
C5_Witness ==
    /\ PopularityChart
    /\ Cardinality(StorageGenres) > 10
    /\ Len(Bars) = 10

\* an empty table was charted
C5_WitnessEmpty ==
    PopularityChart /\ storage = <<>> /\ Bars = <<>>

----------------------------------------------------------------------------
(* Claims about the application (specification Spec) *)

\* C3 as stated: db_create_dataframe(g) for a genre string g returns exactly
\* the rows whose track_genre equals g, so no row at all when g is the empty
\* string or matches no row.
C3_ExactGenreMatch ==
    (loaded.called /\ loaded.genre /= None) =>
        /\ \A n \in DOMAIN loaded.rows : loaded.rows[n].track_genre = loaded.genre
        /\ { loaded.rows[n].track_name : n \in DOMAIN loaded.rows }
              = { i \in DOMAIN storage : storage[i].track_genre = loaded.genre }
        /\ Len(loaded.rows)
              = Cardinality({ i \in DOMAIN storage : storage[i].track_genre = loaded.genre })
        /\ (loaded.genre = "" => loaded.rows = <<>>)

\* C6 as stated: the danceability chart is produced for every genre, also
\* one without rows: the request never ends in an error.
C6_NeverAnError ==
    request.fn = "fig_danceability_prediction" => response.kind = "image"

\* C7: no request changes the songs table.
C7_StorageUnchanged == [][storage' = storage]_vars

\* submit_mood has relabelled the rows of a genre and rendered some of them
C7_Witness ==
    /\ request.fn = "submit_mood"
    /\ response.kind = "render"
    /\ Len(response.songs) > 0

MoodPageShown == request.fn = "submit_mood" /\ response.kind = "render"

\* the rows submit_mood is to show for genre and mood, by track_name
RowsToShow(genre, mood) ==
    { i \in DOMAIN storage :
        storage[i].track_genre = genre /\ map_mood(storage[i]) = mood }

OwnCategories(song) ==
    /\ song.track_name \in DOMAIN storage
    /\ song.danceability = dance_energy_category(storage[song.track_name].danceability)
    /\ song.energy = dance_energy_category(storage[song.track_name].energy)

\* C8 as stated: for session genre g and mood m, the page shows exactly the
\* rows of genre g whose mood (from the numeric columns) is m, each once and
\* each with the categories of its own danceability and energy.
C8_RowsOfGenreAndMood ==
    MoodPageShown =>
        /\ { response.songs[n].track_name : n \in DOMAIN response.songs }
              = RowsToShow(session.genre, session.mood)
        /\ Len(response.songs) = Cardinality(RowsToShow(session.genre, session.mood))
        /\ \A n \in DOMAIN response.songs : OwnCategories(response.songs[n])

\* what remains of C8 when the session genre is not the empty string
C8_ForNonEmptyGenre ==
    (MoodPageShown /\ session.genre /= "") => C8_RowsOfGenreAndMood

\* what remains of C8 for every session genre: the rows shown are rows of
\* the selected mood, each once and with its own categories
C8_MoodAndOwnCategories ==
    MoodPageShown =>
        /\ \A n \in DOMAIN response.songs :
              /\ OwnCategories(response.songs[n])
              /\ map_mood(storage[response.songs[n].track_name]) = session.mood
        /\ \A n, k \in DOMAIN response.songs :
              response.songs[n].track_name = response.songs[k].track_name => n = k

DanceabilityChart ==
    request.fn = "fig_danceability_prediction" /\ response.kind = "image"

\* the (series, point) places of sub-chart `sub` that show row `name`
PlacesOf(sub, name) ==
    UNION { { <<c, n>> : n \in { m \in DOMAIN sub[c].points :
                                   sub[c].points[m].track_name = name } } :
            c \in DOMAIN sub }

CategoryByThresholds(v) ==
    IF v < 40 THEN "Low" ELSE IF v < 70 THEN "Medium" ELSE "High"

ColorOf(category) ==
    IF category = "Low" THEN "red"
    ELSE IF category = "Medium" THEN "orange" ELSE "green"

\* every input row is one point of `sub`, in the series of its energy
EachRowOnce(sub) ==
    /\ \A r \in DOMAIN loaded.rows :
          LET row == loaded.rows[r]
              places == PlacesOf(sub, row.track_name)
          IN  /\ Cardinality(places) = 1
              /\ \A p \in places :
                    /\ sub[p[1]].label = CategoryByThresholds(row.energy)
                    /\ sub[p[1]].color = ColorOf(sub[p[1]].label)
                    /\ sub[p[1]].points[p[2]].x = row.energy
    /\ \A c \in DOMAIN sub : \A n \in DOMAIN sub[c].points :
          \E r \in DOMAIN loaded.rows :
              loaded.rows[r].track_name = sub[c].points[n].track_name

\* C9: every input row is exactly one point of the actual and exactly one
\* point of the predicted sub-chart, both times in the series (Low red,
\* Medium orange, High green) of the category of its energy; the actual
\* point shows the row's danceability, the predicted one its fitted value.
C9_OnePointPerRow ==
    DanceabilityChart =>
        /\ EachRowOnce(response.fig.actual)
        /\ EachRowOnce(response.fig.predicted)
        /\ \A c \in DOMAIN response.fig.actual :
              \A n \in DOMAIN response.fig.actual[c].points :
                 LET p == response.fig.actual[c].points[n]
                 IN  p.y = storage[p.track_name].danceability
        /\ \A c \in DOMAIN response.fig.predicted :
              \A n \in DOMAIN response.fig.predicted[c].points :
                 LET p == response.fig.predicted[c].points[n]
                 IN  p.y.fitted_for = p.track_name

\* a chart of two rows of different energy categories
C9_Witness ==
    /\ DanceabilityChart
    /\ Len(loaded.rows) >= 2
    /\ \E c, d \in DOMAIN response.fig.actual :
          /\ c /= d
          /\ response.fig.actual[c].points /= <<>>
          /\ response.fig.actual[d].points /= <<>>
          /\ response.fig.predicted[c].points /= <<>>
          /\ response.fig.predicted[d].points /= <<>>

\* C10 as stated: whatever sequence of submit_genre and submit_mood came
\* before, every song a submit_mood shows has the track_genre stored in the
\* session, and no song is shown when no genre was selected (the session has
\* no genre, or the empty one).
C10_OnlySessionGenre ==
    MoodPageShown =>
        \A n \in DOMAIN response.songs :
            /\ "genre" \in DOMAIN session
            /\ session.genre /= ""
            /\ storage[response.songs[n].track_name].track_genre = session.genre

====
